---- MODULE Spec2Model ----
(***************************************************************************)
(* Alarm aggregation of typhos/alarm.py (TyphosAlarmBase and the kindLevel *)
(* property of TyphosAlarm).                                               *)
(*                                                                         *)
(* Spec has one action per public operation or slot: dispatched by the Qt  *)
(* event loop in the GUI thread, every handler runs to its end (or to the  *)
(* exception that leaves it) before the next one starts.                   *)
(*                                                                         *)
(* The class itself holds no lock and no re-entrancy guard, so what its    *)
(* statements do when calls overlap is studied apart, on the same widget:  *)
(*   FilterSpec     KIND_FILTERS applied to arbitrary device walks         *)
(*   ScenarioSpec   one tracked address, events and notifications logged   *)
(*   ReentrantSpec  update_current_alarm line by line, observers calling   *)
(*                  back from inside alarm_changed.emit()                  *)
(*   ThreadSpec     update_current_alarm line by line, slots called from   *)
(*                  several threads                                        *)
(*   LoopSpec       the loops of setup_alarm_config and                    *)
(*                  clear_all_alarm_configs iteration by iteration, with   *)
(*                  kindLevel set from a callback in between               *)
(***************************************************************************)
EXTENDS Integers, Sequences, FiniteSets, TLC

\* ------------------------------------------------------------ bounds
MaxChannels == 2    \* PyDMChannel objects created over a behaviour
MaxDevices == 2     \* length of TyphosObject.devices

\* ------------------------------------------------------------ enums
HINTED == 0
NORMAL == 1
CONFIG == 2
KL_OMITTED == 3
KindLevels == {HINTED, NORMAL, CONFIG, KL_OMITTED}

NO_ALARM == 0
MINOR == 1
MAJOR == 2
INVALID == 3
DISCONNECTED == 4
\* the severities the transport delivers to update_severity
Severities == {NO_ALARM, MAJOR}

\* ophyd Kind tags of a signal
Kinds == {"hinted", "normal", "config", "omitted"}

\* KIND_FILTERS with the NORMAL filter keeping the normal signals only
KIND_FILTERS_normal_only(level, kind) ==
  CASE level = HINTED -> kind = "hinted"
    [] level = NORMAL -> kind = "normal"
    [] level = CONFIG -> kind # "omitted"
    [] OTHER -> TRUE

\* KIND_FILTERS[level](walk) for a signal of the given kind
KIND_FILTERS(level, kind) ==
  CASE level = HINTED -> kind = "hinted"
    [] level = NORMAL -> kind \in {"hinted", "normal"}
    [] level = CONFIG -> kind # "omitted"
    [] OTHER -> TRUE

\* ------------------------------------------------------------ devices
\* The devices handed to add_device: each a name and its signals in walk
\* order, a signal being its channel address and its kind.
Addrs == {"a", "b"}
DeviceNames == {"D1", "D2", "D3"}
DeviceSignals(d) ==
  CASE d = "D1" -> << [address |-> "a", kind |-> "hinted"],
                      [address |-> "b", kind |-> "normal"] >>
    [] d = "D2" -> << [address |-> "a", kind |-> "hinted"],
                      [address |-> "b", kind |-> "omitted"] >>
    [] d = "D3" -> << [address |-> "b", kind |-> "hinted"],
                      [address |-> "a", kind |-> "config"] >>

\* ------------------------------------------------------------ helpers
\* get_all_signals_from_device(device, filter_by) followed by
\* channel_from_signal: the addresses of the signals from the i-th on that
\* pass the filter of the level
RECURSIVE FilterSignals(_, _, _)
FilterSignals(s, level, i) ==
  IF i > Len(s) THEN << >>
  ELSE IF KIND_FILTERS(level, s[i].kind)
       THEN << s[i].address >> \o FilterSignals(s, level, i + 1)
       ELSE FilterSignals(s, level, i + 1)

\* channel_addrs of setup_alarm_config: the addresses of the signals of the
\* device that pass the filter of the level, in walk order
channel_addrs(d, level) == FilterSignals(DeviceSignals(d), level, 1)

\* addr_channels is held as the sequence of its items in insertion order
Keys(items) == {items[i].address : i \in 1..Len(items)}
PutItem(items, addr, ch) ==
  IF addr \in Keys(items)
  THEN [i \in 1..Len(items) |->
          IF items[i].address = addr
          THEN [address |-> addr, ch |-> ch] ELSE items[i]]
  ELSE Append(items, [address |-> addr, ch |-> ch])

Max(S) == CHOOSE x \in S : \A y \in S : y <= x

Values(f) == {f[x] : x \in DOMAIN f}

\* what an observer of alarm_changed has received last, after the emissions
\* vs of one operation
Publish(last, vs) == IF vs = << >> THEN last ELSE << vs[Len(vs)] >>

\* ------------------------------------------------------------ state
VARIABLES
  kind_level,       \* self._kind_level
  devices,          \* TyphosObject.devices, a list of device names
  device_channels,  \* dict: device name -> list of channel ids
  addr_channels,    \* dict: address -> channel id, as items in order
  addr_connected,   \* dict: address -> bool
  addr_severity,    \* dict: address -> severity
  alarm_summary,    \* self.alarm_summary
  chan_address,     \* PyDMChannel.address of every channel created
  chan_state,       \* per channel: "new", "live" (connected), "released"
  published,        \* << the level alarm_changed emitted last >>, << >> at first
  emitted,          \* what alarm_changed emitted during the last operation
  error,            \* the exception that ended the last operation, or "none"
  signals,          \* filter study: the signals a device walk yields
  selected,         \* filter study: level -> the signals its filter keeps
  delivered,        \* scenario study: the events the slots were called with
  notified,         \* scenario study: every level alarm_changed emitted
  handlers,         \* step study: the slot calls in progress
  inflight          \* step study: the registry operation in progress

\* the attributes of the widget and of its channels
widget_vars == << kind_level, devices, device_channels, addr_channels,
                  addr_connected, addr_severity, alarm_summary, chan_address,
                  chan_state, published, emitted, error >>

\* what only the studies of single functions and of single steps use
study_vars == << signals, selected, delivered, notified, handlers, inflight >>

vars == << widget_vars, study_vars >>

\* dict assignment f[k] = v on a dict held as a function
Put(f, k, v) == [x \in (DOMAIN f) \cup {k} |-> IF x = k THEN v ELSE f[x]]

EmptyDict == [x \in {} |-> 0]

\* outside the studies none of their variables is in use
StudyIdle ==
  /\ signals = {}
  /\ selected = EmptyDict
  /\ delivered = << >>
  /\ notified = << >>
  /\ handlers = << >>
  /\ inflight = << >>

\* init_alarm_state: the values it assigns to the four dicts and the summary
InitAlarmState ==
  [ addr_connected |-> EmptyDict, addr_severity |-> EmptyDict,
    addr_channels |-> << >>, device_channels |-> EmptyDict,
    alarm_summary |-> DISCONNECTED ]

\* the widget after __init__
WidgetInit ==
  /\ kind_level = HINTED
  /\ devices = << >>
  /\ device_channels = InitAlarmState.device_channels
  /\ addr_channels = InitAlarmState.addr_channels
  /\ addr_connected = InitAlarmState.addr_connected
  /\ addr_severity = InitAlarmState.addr_severity
  /\ alarm_summary = InitAlarmState.alarm_summary
  /\ chan_address = << >>
  /\ chan_state = << >>
  /\ published = << >>
  /\ emitted = << >>
  /\ error = "none"

Init == WidgetInit /\ StudyIdle

\* ------------------------------------------------------------ aggregator
\* update_current_alarm, lines 166-169: << new_alarm >>, or << >> when the
\* statement raises ValueError (every connected flag is true and max() is
\* taken of no severity at all)
new_alarm(conn, sev) ==
  IF \E a \in DOMAIN conn : ~conn[a] THEN << DISCONNECTED >>
  ELSE IF DOMAIN sev = {} THEN << >>
  ELSE << Max(Values(sev)) >>

\* alarm_changed as it would be if line 170 compared nothing
alarm_changed_always(new, summary) == << new >>

\* update_current_alarm, lines 170-171: what alarm_changed emits
alarm_changed(new, summary) ==
  IF new # summary THEN << new >> ELSE << >>

\* update_current_alarm as a whole, on the dicts the caller has just updated
UpdateCurrentAlarm(conn, sev, summary) ==
  LET new == new_alarm(conn, sev) IN
  IF new = << >>
  THEN [alarm_summary |-> summary, emitted |-> << >>, error |-> "ValueError"]
  ELSE [alarm_summary |-> new[1],
        emitted |-> alarm_changed(new[1], summary),
        error |-> "none"]

\* the transport delivers events of an address through a channel that is
\* connected, or was (an event queued before the release is still delivered)
Delivers(addr) ==
  \E c \in 1..Len(chan_address) :
    chan_address[c] = addr /\ chan_state[c] \in {"live", "released"}

Recompute(conn, sev) ==
  LET r == UpdateCurrentAlarm(conn, sev, alarm_summary) IN
  /\ addr_connected' = conn
  /\ addr_severity' = sev
  /\ alarm_summary' = r.alarm_summary
  /\ published' = Publish(published, r.emitted)
  /\ emitted' = r.emitted
  /\ error' = r.error
  /\ UNCHANGED << kind_level, devices, device_channels, addr_channels,
                  chan_address, chan_state >>

update_connection(connected, addr) ==
  /\ Delivers(addr)
  /\ Recompute(Put(addr_connected, addr, connected), addr_severity)

update_severity(severity, addr) ==
  /\ Delivers(addr)
  /\ Recompute(addr_connected, Put(addr_severity, addr, severity))

update_current_alarm ==
  /\ Recompute(addr_connected, addr_severity)

\* ------------------------------------------------------------ registry
\* the loop of setup_alarm_config over channels[1..n]: the items of
\* addr_channels after it
RECURSIVE RegisterChannels(_, _, _, _, _)
RegisterChannels(items, addrs, first, i, n) ==
  IF i > n THEN items
  ELSE RegisterChannels(PutItem(items, addrs[i], first + i), addrs, first,
                        i + 1, n)

\* setup_alarm_config as it would be if lines 133-134 kept the state of an
\* address that is registered already (dict.setdefault)
setup_alarm_config_keeps_state(d, connect_fails) ==
  LET addrs == channel_addrs(d, kind_level)
      k == Len(addrs)
      first == Len(chan_address)
      n == IF connect_fails = 0 THEN k ELSE connect_fails
      done == {addrs[i] : i \in 1..n}
  IN
  /\ device_channels' = Put(device_channels, d, [i \in 1..k |-> first + i])
  /\ addr_channels' = RegisterChannels(addr_channels, addrs, first, 1, n)
  /\ addr_connected' =
       [x \in (DOMAIN addr_connected) \cup done |->
          IF x \in DOMAIN addr_connected THEN addr_connected[x] ELSE FALSE]
  /\ addr_severity' =
       [x \in (DOMAIN addr_severity) \cup done |->
          IF x \in DOMAIN addr_severity THEN addr_severity[x] ELSE INVALID]
  /\ chan_address' = chan_address \o addrs
  /\ chan_state' = chan_state \o
       [i \in 1..k |-> IF connect_fails = 0 \/ i < connect_fails
                       THEN "live" ELSE "new"]
  /\ error' = IF connect_fails = 0 THEN "none" ELSE "ConnectError"

\* setup_alarm_config(device); connect_fails is the index of the channel
\* whose ch.connect() raises, 0 when none does
setup_alarm_config(d, connect_fails) ==
  LET addrs == channel_addrs(d, kind_level)
      k == Len(addrs)
      first == Len(chan_address)
      n == IF connect_fails = 0 THEN k ELSE connect_fails
      done == {addrs[i] : i \in 1..n}
  IN
  /\ device_channels' = Put(device_channels, d, [i \in 1..k |-> first + i])
  /\ addr_channels' = RegisterChannels(addr_channels, addrs, first, 1, n)
  /\ addr_connected' =
       [x \in (DOMAIN addr_connected) \cup done |->
          IF x \in done THEN FALSE ELSE addr_connected[x]]
  /\ addr_severity' =
       [x \in (DOMAIN addr_severity) \cup done |->
          IF x \in done THEN INVALID ELSE addr_severity[x]]
  /\ chan_address' = chan_address \o addrs
  /\ chan_state' = chan_state \o
       [i \in 1..k |-> IF connect_fails = 0 \/ i < connect_fails
                       THEN "live" ELSE "new"]
  /\ error' = IF connect_fails = 0 THEN "none" ELSE "ConnectError"

\* super().add_device(device): TyphosObject (typhos/utils.py) keeps the
\* devices it is given in the list self.devices, which update_alarm_config
\* iterates; it has no check of the name
TyphosObject_add_device(d) == devices' = Append(devices, d)

add_device(d, connect_fails) ==
  /\ Len(devices) < MaxDevices
  /\ Len(chan_address) + Len(channel_addrs(d, kind_level)) <= MaxChannels
  /\ connect_fails \in 0..Len(channel_addrs(d, kind_level))
  /\ TyphosObject_add_device(d)
  /\ setup_alarm_config(d, connect_fails)
  /\ emitted' = << >>
  /\ UNCHANGED << kind_level, alarm_summary, published >>

\* the loop of clear_all_alarm_configs: ch.disconnect() for the values of
\* addr_channels in order; disconnect_fails is the index of the channel whose
\* disconnect() raises, 0 when none does
Disconnected(disconnect_fails) ==
  LET n == IF disconnect_fails = 0 THEN Len(addr_channels)
           ELSE disconnect_fails - 1
      gone == {addr_channels[i].ch : i \in 1..n}
  IN [c \in 1..Len(chan_state) |->
        IF c \in gone /\ chan_state[c] = "live" THEN "released"
        ELSE chan_state[c]]

\* clear_all_alarm_configs up to the exception, or through init_alarm_state
ClearAll(disconnect_fails) ==
  /\ chan_state' = Disconnected(disconnect_fails)
  /\ IF disconnect_fails = 0
     THEN /\ addr_connected' = InitAlarmState.addr_connected
          /\ addr_severity' = InitAlarmState.addr_severity
          /\ addr_channels' = InitAlarmState.addr_channels
          /\ device_channels' = InitAlarmState.device_channels
          /\ alarm_summary' = InitAlarmState.alarm_summary
     ELSE UNCHANGED << addr_connected, addr_severity, addr_channels,
                       device_channels, alarm_summary >>
  /\ emitted' = << >>
  /\ UNCHANGED << devices, chan_address, published >>

clear_all_alarm_configs(disconnect_fails) ==
  /\ disconnect_fails \in 0..Len(addr_channels)
  /\ ClearAll(disconnect_fails)
  /\ error' = IF disconnect_fails = 0 THEN "none" ELSE "DisconnectError"
  /\ UNCHANGED kind_level

\* update_alarm_config: clear, then self.setup_alarms(dev) for the first
\* device; the class defines setup_alarm_config and no setup_alarms, so the
\* call raises AttributeError
update_alarm_config(disconnect_fails) ==
  /\ ClearAll(disconnect_fails)
  /\ error' = IF disconnect_fails # 0 THEN "DisconnectError"
              ELSE IF devices # << >> THEN "AttributeError"
              ELSE "none"

\* the setter of the kindLevel property
kindLevel(kind_level_new, disconnect_fails) ==
  /\ disconnect_fails \in 0..Len(addr_channels)
  /\ kind_level' = kind_level_new
  /\ update_alarm_config(disconnect_fails)

Next ==
  \/ \E d \in DeviceNames, cf \in 0..Cardinality(Addrs) :
       add_device(d, cf) /\ UNCHANGED study_vars
  \/ \E fi \in 0..Cardinality(Addrs) :
       clear_all_alarm_configs(fi) /\ UNCHANGED study_vars
  \/ \E kl \in KindLevels, fi \in 0..Cardinality(Addrs) :
       kindLevel(kl, fi) /\ UNCHANGED study_vars
  \/ \E c \in BOOLEAN, a \in Addrs :
       update_connection(c, a) /\ UNCHANGED study_vars
  \/ \E s \in Severities, a \in Addrs :
       update_severity(s, a) /\ UNCHANGED study_vars
  \/ update_current_alarm /\ UNCHANGED study_vars

Spec == Init /\ [][Next]_vars

\* ------------------------------------------------------------ vocabulary
\* the addresses setup_alarm_config has registered and no clear has removed
TrackedAddrs == Keys(addr_channels)

\* the level observers of alarm_changed hold: the last one emitted, and
\* DISCONNECTED (the level init_alarm_state shows) before any emission
LastPublished == IF published = << >> THEN DISCONNECTED ELSE published[1]

\* the channels that are connected and not released
Live == {c \in 1..Len(chan_state) : chan_state[c] = "live"}

\* no connect() and no disconnect() of a registered channel has failed
TransportOk ==
  \A i \in 1..Len(addr_channels) : chan_state[addr_channels[i].ch] = "live"

IsConnectionEvent(a) == \E c \in BOOLEAN : update_connection(c, a)
IsSeverityEvent(a) == \E s \in Severities : update_severity(s, a)
IsEvent(a) == IsConnectionEvent(a) \/ IsSeverityEvent(a)

\* ------------------------------------------------------------ claims

\* C1: in every reachable state, if a tracked address has connected = false
\* then alarm_summary is DISCONNECTED.
C1_DisconnectedDominates ==
  (\E a \in TrackedAddrs : ~addr_connected[a])
    => alarm_summary = DISCONNECTED

\* C2: after a connection or severity event of a tracked address, if the
\* tracked set is not empty and every tracked address is connected, then
\* alarm_summary is the maximum of the tracked severities.
C2_SummaryIsMaxSeverity ==
  [][ \A a \in Addrs :
        ( /\ a \in TrackedAddrs
          /\ IsEvent(a)
          /\ TrackedAddrs' # {}
          /\ \A t \in TrackedAddrs' : addr_connected'[t] )
        => alarm_summary' = Max({addr_severity'[t] : t \in TrackedAddrs'})
    ]_vars

\* C3: a connection or severity event emits alarm_changed exactly when the
\* summary it computes differs from the level published last, and observers
\* never receive the same level twice in a row.
C3_NotifyExactlyOnChange ==
  [][ /\ \A a \in Addrs :
            (IsEvent(a) /\ error' = "none")
            => ((emitted' # << >>) <=> (alarm_summary' # LastPublished))
      /\ (emitted' # << >> => emitted' # published)
    ]_vars

\* C4: a connection or severity event of an address that is not tracked adds
\* no entry to addr_connected or addr_severity, leaves alarm_summary alone
\* and emits nothing.
C4_StaleEventIsNoOp ==
  [][ \A a \in Addrs :
        (a \notin TrackedAddrs /\ IsEvent(a))
        => /\ UNCHANGED << addr_connected, addr_severity, alarm_summary >>
           /\ emitted' = << >>
    ]_vars

\* C5: with no per-address state the summary is DISCONNECTED, and
\* update_current_alarm over no severity entries does not fail.
C5_EmptyMappingIsDisconnected ==
  /\ (DOMAIN addr_connected = {} /\ DOMAIN addr_severity = {})
       => alarm_summary = DISCONNECTED
  /\ ~(DOMAIN addr_severity = {} /\ error = "ValueError")

\* the addresses the filter of the level selects over the known devices
SelectedAddrs(level) ==
  UNION { {channel_addrs(devices[i], level)[j] :
             j \in 1..Len(channel_addrs(devices[i], level))} :
          i \in 1..Len(devices) }

\* C6: after the kindLevel setter the tracked addresses are those the new
\* level selects over the known devices, each with connected = false and
\* severity = INVALID.
C6_ReconfigureTracksSelected ==
  [][ \A kl \in KindLevels :
        kindLevel(kl, 0)
        => /\ TrackedAddrs' = SelectedAddrs(kl)
           /\ DOMAIN addr_connected' = SelectedAddrs(kl)
           /\ DOMAIN addr_severity' = SelectedAddrs(kl)
           /\ \A a \in SelectedAddrs(kl) :
                ~addr_connected'[a] /\ addr_severity'[a] = INVALID
    ]_vars

\* C7: clear_all_alarm_configs resets the summary to DISCONNECTED and emits
\* DISCONNECTED when the level published last is another one, and emits
\* nothing when it is DISCONNECTED already.
C7_ClearNotifiesDisconnected ==
  [][ clear_all_alarm_configs(0)
        => /\ alarm_summary' = DISCONNECTED
           /\ emitted' = IF LastPublished # DISCONNECTED
                         THEN << DISCONNECTED >> ELSE << >>
    ]_vars

\* C8: (while no connect() or disconnect() has failed) every tracked address
\* has exactly one live subscription and every live subscription is that of
\* a tracked address.
C8_OneLiveSubscriptionPerAddress ==
  TransportOk =>
    /\ \A a \in TrackedAddrs :
         Cardinality({c \in Live : chan_address[c] = a}) = 1
    /\ \A c \in Live : chan_address[c] \in TrackedAddrs

C10_ClearSurvivesFailedRelease ==
  [][ \A fi \in 1..Cardinality(Addrs) :
        clear_all_alarm_configs(fi)
        => /\ \A i \in 1..Len(addr_channels) :
                i # fi => chan_state'[addr_channels[i].ch] # "live"
           /\ device_channels' = EmptyDict
           /\ addr_channels' = << >>
           /\ addr_connected' = EmptyDict
           /\ addr_severity' = EmptyDict
    ]_vars

\* ------------------------------------------------------------ filters
\* The filters of KIND_FILTERS on their own: a device walk yields any set of
\* signals, and each level's filter is applied to it once.
WalkSignals == [address : Addrs, kind : Kinds]

\* get_all_signals_from_device(device, filter_by=KIND_FILTERS[level])
filter_by(level, sigs) == {s \in sigs : KIND_FILTERS(level, s.kind)}

FilterInit ==
  /\ WidgetInit
  /\ signals \in SUBSET WalkSignals
  /\ selected = EmptyDict
  /\ delivered = << >>
  /\ notified = << >>
  /\ handlers = << >>
  /\ inflight = << >>

apply_filter(level) ==
  /\ level \notin DOMAIN selected
  /\ selected' = Put(selected, level, filter_by(level, signals))
  /\ UNCHANGED << widget_vars, signals, delivered, notified, handlers, inflight >>

FilterNext == \E level \in KindLevels : apply_filter(level)

FilterSpec == FilterInit /\ [][FilterNext]_vars

\* C14: for every set of signals, what HINTED selects is part of what
\* NORMAL selects, that part of what CONFIG selects, and OMITTED selects
\* every signal.
C14_FilterMonotone ==
  /\ \A l1, l2 \in DOMAIN selected : l1 <= l2 => selected[l1] \subseteq selected[l2]
  /\ KL_OMITTED \in DOMAIN selected => selected[KL_OMITTED] = signals

\* all four filters applied to a walk on which each keeps more than the last
C14_Witness ==
  /\ DOMAIN selected = KindLevels
  /\ selected[HINTED] # {}
  /\ selected[HINTED] # selected[NORMAL]
  /\ selected[NORMAL] # selected[CONFIG]
  /\ selected[CONFIG] # selected[KL_OMITTED]

\* ------------------------------------------------------------ scenario
\* One address under watch: the level is chosen, one device with a single
\* selected signal is added, and from then on the transport calls the two
\* slots of that address; the events and the notifications are recorded.
MaxEvents == 4

ConnectionEvent(c) == [slot |-> "connection", value |-> c]
SeverityEvent(s) == [slot |-> "severity", value |-> s]

scenario_kindLevel(kl) ==
  /\ devices = << >>
  /\ kindLevel(kl, 0)
  /\ UNCHANGED study_vars

scenario_add_device(d) ==
  /\ devices = << >>
  /\ Len(channel_addrs(d, kind_level)) = 1
  /\ add_device(d, 0)
  /\ UNCHANGED study_vars

scenario_update_connection(c, a) ==
  /\ Len(delivered) < MaxEvents
  /\ a \in Keys(addr_channels)
  /\ update_connection(c, a)
  /\ delivered' = Append(delivered, ConnectionEvent(c))
  /\ notified' = notified \o emitted'
  /\ UNCHANGED << signals, selected, handlers, inflight >>

scenario_update_severity(s, a) ==
  /\ Len(delivered) < MaxEvents
  /\ a \in Keys(addr_channels)
  /\ update_severity(s, a)
  /\ delivered' = Append(delivered, SeverityEvent(s))
  /\ notified' = notified \o emitted'
  /\ UNCHANGED << signals, selected, handlers, inflight >>

ScenarioNext ==
  \/ \E kl \in KindLevels : scenario_kindLevel(kl)
  \/ \E d \in DeviceNames : scenario_add_device(d)
  \/ \E c \in BOOLEAN, a \in Addrs : scenario_update_connection(c, a)
  \/ \E s \in Severities, a \in Addrs : scenario_update_severity(s, a)

ScenarioSpec == Init /\ [][ScenarioNext]_vars

\* the two deliveries of 'connected with NO_ALARM, then MAJOR, then
\* disconnect': the connection event first, or the first severity first
ConnectionFirst ==
  << ConnectionEvent(TRUE), SeverityEvent(NO_ALARM), SeverityEvent(MAJOR),
     ConnectionEvent(FALSE) >>
SeverityFirst ==
  << SeverityEvent(NO_ALARM), ConnectionEvent(TRUE), SeverityEvent(MAJOR),
     ConnectionEvent(FALSE) >>

\* C11 as stated: for one tracked address, in either order of the
\* connection event and the first severity event, the notifications are
\* exactly NO_ALARM, MAJOR, DISCONNECTED.
C11_ScenarioNotifiesThree ==
  delivered \in {ConnectionFirst, SeverityFirst}
    => notified = << NO_ALARM, MAJOR, DISCONNECTED >>

\* C11: for one tracked address the notifications are exactly NO_ALARM,
\* MAJOR, DISCONNECTED when the first severity event is delivered before the
\* connection event, and exactly INVALID, NO_ALARM, MAJOR, DISCONNECTED when
\* the connection event is delivered first.
C11_ScenarioNotifiesByOrder ==
  /\ delivered = SeverityFirst
       => notified = << NO_ALARM, MAJOR, DISCONNECTED >>
  /\ delivered = ConnectionFirst
       => notified = << INVALID, NO_ALARM, MAJOR, DISCONNECTED >>

\* the whole scenario delivered with the connection event first
C11_Witness ==
  /\ delivered = ConnectionFirst
  /\ Cardinality(Keys(addr_channels)) = 1
  /\ Len(notified) = 4

\* ------------------------------------------------------------ steps
\* update_connection, update_severity and update_current_alarm statement by
\* statement.  A call in progress is a frame of handlers: pc is the line it
\* is about to execute, new_alarm its local (<< >> before line 166).
MaxDepth == 2      \* calls nested through the observers of alarm_changed
MaxThreads == 2    \* threads calling the slots at once

Frame(pc, new) == [pc |-> pc, new_alarm |-> new]

RemoveAt(q, i) == [j \in 1..(Len(q) - 1) |-> IF j < i THEN q[j] ELSE q[j + 1]]

\* the first device of the widget, with at least one selected signal
first_add_device(d) ==
  /\ devices = << >>
  /\ Len(channel_addrs(d, kind_level)) >= 1
  /\ add_device(d, 0)
  /\ UNCHANGED study_vars

step_frame == UNCHANGED << kind_level, devices, device_channels,
                           addr_channels, chan_address, chan_state,
                           signals, selected, delivered, notified, inflight >>

\* line 150, then the call of update_current_alarm
call_update_connection(connected, addr) ==
  /\ addr \in Keys(addr_channels)
  /\ addr_connected' = Put(addr_connected, addr, connected)
  /\ handlers' = Append(handlers, Frame("compute", << >>))
  /\ emitted' = << >>
  /\ step_frame
  /\ UNCHANGED << addr_severity, alarm_summary, published, error >>

\* line 155, then the call of update_current_alarm
call_update_severity(severity, addr) ==
  /\ addr \in Keys(addr_channels)
  /\ addr_severity' = Put(addr_severity, addr, severity)
  /\ handlers' = Append(handlers, Frame("compute", << >>))
  /\ emitted' = << >>
  /\ step_frame
  /\ UNCHANGED << addr_connected, alarm_summary, published, error >>

\* update_current_alarm called on its own
call_update_current_alarm ==
  /\ handlers' = Append(handlers, Frame("compute", << >>))
  /\ emitted' = << >>
  /\ step_frame
  /\ UNCHANGED << addr_connected, addr_severity, alarm_summary, published,
                  error >>

\* lines 166-169
compute(i) ==
  /\ handlers[i].pc = "compute"
  /\ LET new == new_alarm(addr_connected, addr_severity) IN
     IF new = << >>
     THEN /\ handlers' = RemoveAt(handlers, i)
          /\ error' = "ValueError"
     ELSE /\ handlers' = [handlers EXCEPT ![i] = Frame("compare", new)]
          /\ error' = "none"
  /\ emitted' = << >>
  /\ step_frame
  /\ UNCHANGED << addr_connected, addr_severity, alarm_summary, published >>

\* lines 170-171: the comparison, and emit() entered when it differs; the
\* observers of alarm_changed run inside emit()
compare(i) ==
  /\ handlers[i].pc = "compare"
  /\ emitted' = alarm_changed(handlers[i].new_alarm[1], alarm_summary)
  /\ published' = Publish(published, emitted')
  /\ handlers' = [handlers EXCEPT
                    ![i].pc = IF emitted' = << >> THEN "assign" ELSE "emit"]
  /\ step_frame
  /\ UNCHANGED << addr_connected, addr_severity, alarm_summary, error >>

\* line 171: the observers return and emit() with them
emit_returns(i) ==
  /\ handlers[i].pc = "emit"
  /\ handlers' = [handlers EXCEPT ![i].pc = "assign"]
  /\ emitted' = << >>
  /\ step_frame
  /\ UNCHANGED << addr_connected, addr_severity, alarm_summary, published,
                  error >>

\* line 172, and the return
assign(i) ==
  /\ handlers[i].pc = "assign"
  /\ alarm_summary' = handlers[i].new_alarm[1]
  /\ handlers' = RemoveAt(handlers, i)
  /\ emitted' = << >>
  /\ step_frame
  /\ UNCHANGED << addr_connected, addr_severity, published, error >>

\* One thread (the GUI thread): the event loop calls a slot when no call is
\* in progress, an observer may call update_current_alarm from inside
\* emit(), and only the innermost call runs.
Innermost == Len(handlers)

ReentrantNext ==
  \/ \E kl \in KindLevels : scenario_kindLevel(kl)
  \/ \E d \in DeviceNames : first_add_device(d)
  \/ \E c \in BOOLEAN, a \in Addrs :
       handlers = << >> /\ call_update_connection(c, a)
  \/ \E s \in Severities, a \in Addrs :
       handlers = << >> /\ call_update_severity(s, a)
  \/ /\ handlers # << >>
     /\ Len(handlers) < MaxDepth
     /\ handlers[Innermost].pc = "emit"
     /\ call_update_current_alarm
  \/ handlers # << >> /\ compute(Innermost)
  \/ handlers # << >> /\ compare(Innermost)
  \/ handlers # << >> /\ emit_returns(Innermost)
  \/ handlers # << >> /\ assign(Innermost)

ReentrantSpec == Init /\ [][ReentrantNext]_vars

\* The slots called from several threads at once: nothing in the class
\* serialises lines 150-172, so the statements of the calls interleave.
ThreadNext ==
  \/ \E kl \in KindLevels : scenario_kindLevel(kl)
  \/ \E d \in DeviceNames : first_add_device(d)
  \/ \E c \in BOOLEAN, a \in Addrs :
       Len(handlers) < MaxThreads /\ call_update_connection(c, a)
  \/ \E s \in Severities, a \in Addrs :
       Len(handlers) < MaxThreads /\ call_update_severity(s, a)
  \/ \E i \in 1..Len(handlers) : compute(i)
  \/ \E i \in 1..Len(handlers) : compare(i)
  \/ \E i \in 1..Len(handlers) : emit_returns(i)
  \/ \E i \in 1..Len(handlers) : assign(i)

ThreadSpec == Init /\ [][ThreadNext]_vars

\* C13: once the handlers of concurrently handled events have all
\* finished, alarm_summary is the summary computed from the final
\* per-address state.
C13_ConcurrentHandlersAtomic ==
  (handlers = << >> /\ Keys(addr_channels) # {})
    => << alarm_summary >> = new_alarm(addr_connected, addr_severity)

\* C16: while an observer is being notified with level L, alarm_summary is
\* L already, and a call of update_current_alarm made from inside the
\* notification does not notify L a second time.
C16_SummarySetWhenNotified ==
  /\ \A i \in 1..Len(handlers) :
       handlers[i].pc = "emit"
         => alarm_summary = handlers[i].new_alarm[1]
  /\ \A i, j \in 1..Len(handlers) :
       (i < j /\ handlers[i].pc = "emit" /\ handlers[j].pc = "emit")
         => handlers[i].new_alarm # handlers[j].new_alarm

\* ------------------------------------------------------------ loops
\* setup_alarm_config and update_alarm_config iteration by iteration, in
\* the one thread of the widget.  inflight holds the frame of the call in
\* progress: its loop, the channels it iterates and the index of the next.
\* A callback fired from inside ch.connect() or ch.disconnect() may set
\* kindLevel, which calls update_alarm_config there and then.
LoopFrame(op, chans, i) == [op |-> op, chans |-> chans, i |-> i]

loop_frame == UNCHANGED << signals, selected, delivered, notified, handlers >>

\* add_device up to the loop of setup_alarm_config: lines 94 and 114-130
begin_add_device(d) ==
  LET addrs == channel_addrs(d, kind_level)
      k == Len(addrs)
      first == Len(chan_address)
  IN
  /\ inflight = << >>
  /\ devices = << >>
  /\ k >= 1
  /\ first + k <= MaxChannels
  /\ TyphosObject_add_device(d)
  /\ device_channels' = Put(device_channels, d, [j \in 1..k |-> first + j])
  /\ chan_address' = chan_address \o addrs
  /\ chan_state' = chan_state \o [j \in 1..k |-> "new"]
  /\ inflight' = << LoopFrame("setup", [j \in 1..k |-> first + j], 1) >>
  /\ emitted' = << >>
  /\ error' = "none"
  /\ loop_frame
  /\ UNCHANGED << kind_level, addr_channels, addr_connected, addr_severity,
                  alarm_summary, published >>

\* one iteration of the loop of setup_alarm_config: lines 131-135
setup_step ==
  /\ inflight # << >>
  /\ inflight[1].op = "setup"
  /\ inflight[1].i <= Len(inflight[1].chans)
  /\ LET ch == inflight[1].chans[inflight[1].i]
         addr == chan_address[ch]
     IN /\ addr_channels' = PutItem(addr_channels, addr, ch)
        /\ addr_connected' = Put(addr_connected, addr, FALSE)
        /\ addr_severity' = Put(addr_severity, addr, INVALID)
        /\ chan_state' = [chan_state EXCEPT ![ch] = "live"]
  /\ inflight' = << [inflight[1] EXCEPT !.i = @ + 1] >>
  /\ emitted' = << >>
  /\ loop_frame
  /\ UNCHANGED << kind_level, devices, device_channels, alarm_summary,
                  chan_address, published, error >>

\* setup_alarm_config and add_device return
setup_returns ==
  /\ inflight # << >>
  /\ inflight[1].op = "setup"
  /\ inflight[1].i > Len(inflight[1].chans)
  /\ inflight' = << >>
  /\ loop_frame
  /\ UNCHANGED widget_vars

\* the kindLevel setter up to the loop of clear_all_alarm_configs: lines
\* 270-271, 144 and 101; the loop iterates the values of the dict that
\* addr_channels is at this moment
begin_kindLevel(kind_level_new) ==
  /\ inflight = << >>
  /\ kind_level' = kind_level_new
  /\ inflight' = << LoopFrame("clear",
                     [j \in 1..Len(addr_channels) |-> addr_channels[j].ch],
                     1) >>
  /\ emitted' = << >>
  /\ error' = "none"
  /\ loop_frame
  /\ UNCHANGED << devices, device_channels, addr_channels, addr_connected,
                  addr_severity, alarm_summary, chan_address, chan_state,
                  published >>

\* one iteration of the loop of clear_all_alarm_configs: lines 102-103
clear_step ==
  /\ inflight # << >>
  /\ inflight[1].op = "clear"
  /\ inflight[1].i <= Len(inflight[1].chans)
  /\ LET ch == inflight[1].chans[inflight[1].i] IN
     chan_state' = [chan_state EXCEPT
                      ![ch] = IF @ = "live" THEN "released" ELSE @]
  /\ inflight' = << [inflight[1] EXCEPT !.i = @ + 1] >>
  /\ emitted' = << >>
  /\ loop_frame
  /\ UNCHANGED << kind_level, devices, device_channels, addr_channels,
                  addr_connected, addr_severity, alarm_summary,
                  chan_address, published, error >>

\* the end of update_alarm_config: init_alarm_state (line 104), then the
\* loop over the devices (lines 145-146)
clear_returns ==
  /\ inflight # << >>
  /\ inflight[1].op = "clear"
  /\ inflight[1].i > Len(inflight[1].chans)
  /\ addr_connected' = InitAlarmState.addr_connected
  /\ addr_severity' = InitAlarmState.addr_severity
  /\ addr_channels' = InitAlarmState.addr_channels
  /\ device_channels' = InitAlarmState.device_channels
  /\ alarm_summary' = InitAlarmState.alarm_summary
  /\ error' = IF devices # << >> THEN "AttributeError" ELSE "none"
  /\ inflight' = << >>
  /\ emitted' = << >>
  /\ loop_frame
  /\ UNCHANGED << kind_level, devices, chan_address, chan_state, published >>

\* kindLevel set by a callback that ch.connect() or ch.disconnect() of the
\* iteration just made has fired: the setter and update_alarm_config run
\* to their end inside that call.  The exception update_alarm_config may
\* end with either leaves the loop in progress as well (propagates), or
\* is reported by the dispatcher of the callback and the loop goes on.
nested_kindLevel(kind_level_new, propagates) ==
  /\ inflight # << >>
  /\ inflight[1].i > 1
  /\ kindLevel(kind_level_new, 0)
  /\ inflight' = IF propagates /\ error' # "none" THEN << >> ELSE inflight
  /\ loop_frame

LoopNext ==
  \/ \E d \in DeviceNames : begin_add_device(d)
  \/ setup_step
  \/ setup_returns
  \/ \E kl \in KindLevels : begin_kindLevel(kl)
  \/ clear_step
  \/ clear_returns
  \/ \E kl \in KindLevels, p \in BOOLEAN : nested_kindLevel(kl, p)

LoopSpec == Init /\ [][LoopNext]_vars

\* every live channel is the one registered for its address and belongs to
\* a registered device, and no two live channels have the same address
RegistryConsistent ==
  /\ \A c \in 1..Len(chan_state) :
       chan_state[c] = "live"
         => /\ \E j \in 1..Len(addr_channels) : addr_channels[j].ch = c
            /\ \E d \in DOMAIN device_channels :
                 \E j \in 1..Len(device_channels[d]) :
                   device_channels[d][j] = c
  /\ \A c1, c2 \in 1..Len(chan_state) :
       (chan_state[c1] = "live" /\ chan_state[c2] = "live"
          /\ chan_address[c1] = chan_address[c2]) => c1 = c2

\* C12: update_alarm_config called while a setup or a teardown is in
\* progress takes no effect on the registry and on the subscriptions
\* before that call has finished (it is queued or rejected), and when no
\* call is in progress any more no address is subscribed twice and every
\* live subscription is in the registry.
C12_ReconfigurationNotInterleaved ==
  [][ /\ \A kl \in KindLevels, p \in BOOLEAN :
           nested_kindLevel(kl, p)
           => UNCHANGED << addr_channels, device_channels, addr_connected,
                           addr_severity, chan_state >>
      /\ inflight' = << >> => RegistryConsistent'
    ]_vars

\* ------------------------------------------------------------ registration
\* C15: when ch.connect() raises for an address during add_device, the
\* address is registered all the same with connected = false, and the
\* summary after the call is DISCONNECTED (stated for a device that is not
\* registered yet and an address that is not tracked yet).
C15_FailedConnectStaysRegistered ==
  [][ \A d \in DeviceNames \ DOMAIN device_channels,
         cf \in 1..Cardinality(Addrs) :
        (add_device(d, cf)
           /\ channel_addrs(d, kind_level)[cf] \notin Keys(addr_channels))
        => LET a == channel_addrs(d, kind_level)[cf] IN
           /\ a \in Keys(addr_channels')
           /\ a \in DOMAIN addr_connected'
           /\ ~addr_connected'[a]
           /\ a \in DOMAIN addr_severity'
           /\ alarm_summary' = DISCONNECTED
    ]_vars

\* C17: add_device of a device that is not registered yet leaves the
\* connected flag and the severity of every address tracked before the call
\* as they were, also when the device has a signal at such an address.
C17_AddDeviceKeepsTrackedState ==
  [][ \A d \in DeviceNames \ DOMAIN device_channels :
        (add_device(d, 0) /\ \A i \in 1..Len(devices) : devices[i] # d)
        => \A a \in Keys(addr_channels) \cap DOMAIN addr_connected
                                        \cap DOMAIN addr_severity :
             /\ addr_connected'[a] = addr_connected[a]
             /\ addr_severity'[a] = addr_severity[a]
    ]_vars

\* C18: in every reachable state addr_connected, addr_severity and
\* addr_channels have the same set of keys.
C18_SameKeySets ==
  /\ DOMAIN addr_connected = Keys(addr_channels)
  /\ DOMAIN addr_severity = Keys(addr_channels)

====
